---- MODULE Spec2Model ----
(***************************************************************************)
(* TaskCollection (apps/rush-lib): a registry of named tasks with          *)
(* dependency edges, a depth-first check for cyclic dependencies and an    *)
(* ordering of the tasks by critical path length.                          *)
(* CheckAction.run (apps/rush-lib): the report of the dependencies whose    *)
(* versions mismatch, and the exit status that follows it.                  *)
(***************************************************************************)
EXTENDS Integers, Sequences, FiniteSets, TLC

\* ---------------------------------------------------------------- bounds
\* The longest taskDependencies list passed to addDependencies.
MaxDepLen == 2
\* How many dependency edges a session declares.
MaxEdges == 3
\* How many dependencies the mismatch finder can report.
MaxMismatches == 2

\* The task names the callers use; a name is unregistered until addTask
\* stores it.
Names == {"A", "B", "C"}

\* task.criticalPathLength = undefined
Undefined == -1

\* TaskStatus.Ready
Ready == "Ready"

\* ---------------------------------------------------------------- state
VARIABLES
  tasks,               \* _tasks: the keys of the Map, in insertion order
  dependencies,        \* task.dependencies, by task name
  dependents,          \* task.dependents, by task name, in insertion order
  status,              \* task.status, by task name
  criticalPathLength,  \* task.criticalPathLength, by task name
  result,              \* the last call: what it returned or threw
  pc,                  \* CheckAction.run: where the call stands
  projects,            \* rushConfiguration.projects, by packageName
  finder,              \* mismatchFinder: dependency -> version -> consumers
  cursor,              \* the position of getMismatches().forEach
  console,             \* the lines written with console.log
  processExit          \* the codes passed to process.exit

collectionVars ==
  <<tasks, dependencies, dependents, status, criticalPathLength, result>>

checkVars == <<pc, projects, finder, cursor, console, processExit>>

vars == <<collectionVars, checkVars>>

\* The registry as one value, for the operations below.
Registry ==
  [tasks |-> tasks, dependencies |-> dependencies, dependents |-> dependents,
   status |-> status, criticalPathLength |-> criticalPathLength]

\* ---------------------------------------------------------------- helpers
Range(s) == {s[i] : i \in 1..Len(s)}

\* Array.prototype.indexOf: the first 0-based position of x, -1 when absent.
indexOf(s, x) ==
  IF \E i \in 1..Len(s) : s[i] = x
  THEN (CHOOSE i \in 1..Len(s) : s[i] = x /\ \A j \in 1..(i - 1) : s[j] # x) - 1
  ELSE -1

\* Array.prototype.reverse
reverse(s) == [i \in 1..Len(s) |-> s[Len(s) + 1 - i]]

\* Array.prototype.pop, as the array it leaves
pop_Missing(s) == s
pop(s) == SubSeq(s, 1, Len(s) - 1)

\* Math.max(...xs) of a non-empty list
MathMax(xs) == CHOOSE m \in Range(xs) : \A x \in Range(xs) : x <= m

\* Set.prototype.add on a Set iterated in insertion order
setAdd_Push(s, x) == Append(s, x)
setAdd(s, x) == IF x \in Range(s) THEN s ELSE Append(s, x)

\* Map.prototype.has
has(r, name) == name \in Range(r.tasks)

\* ---------------------------------------------------------------- addTask
\* The body of addTask after the duplicate check: the task's fields are
\* initialised and the task is stored under its name (Map.set keeps the
\* position of a key that is already present).
register_LengthZero(r, name) ==
  [tasks |-> IF has(r, name) THEN r.tasks ELSE Append(r.tasks, name),
   dependencies |-> (name :> {}) @@ r.dependencies,
   dependents |-> (name :> <<>>) @@ r.dependents,
   status |-> (name :> Ready) @@ r.status,
   criticalPathLength |-> (name :> 0) @@ r.criticalPathLength]
register(r, name) ==
  [tasks |-> IF has(r, name) THEN r.tasks ELSE Append(r.tasks, name),
   dependencies |-> (name :> {}) @@ r.dependencies,
   dependents |-> (name :> <<>>) @@ r.dependents,
   status |-> (name :> Ready) @@ r.status,
   criticalPathLength |-> (name :> Undefined) @@ r.criticalPathLength]

addTask_NoCheck(r, name) == [reg |-> register(r, name), outcome |-> "ok"]
addTask(r, name) ==
  IF has(r, name)
  THEN [reg |-> r, outcome |-> "AlreadyRegistered"]
  ELSE [reg |-> register(r, name), outcome |-> "ok"]

\* hasTask
hasTask(r, taskName) == has(r, taskName)

\* ---------------------------------------------------------------- addDependencies
\* task.dependencies.add(dependency); dependency.dependents.add(task)
addEdge_OneSided(r, task, dependency) ==
  [r EXCEPT !.dependencies[task] = @ \cup {dependency}]
addEdge_SkipSelf(r, task, dependency) ==
  IF task = dependency THEN r
  ELSE [r EXCEPT !.dependencies[task] = @ \cup {dependency},
                 !.dependents[dependency] = setAdd(@, task)]
addEdge(r, task, dependency) ==
  [r EXCEPT !.dependencies[task] = @ \cup {dependency},
            !.dependents[dependency] = setAdd(@, task)]

\* for (const dependencyName of taskDependencies) { ... }
RECURSIVE addEach_CheckAfter(_, _, _)
addEach_CheckAfter(r, task, names) ==
  IF names = <<>> THEN [reg |-> r, outcome |-> "ok"]
  ELSE IF ~has(r, Head(names))
  THEN [reg |-> [r EXCEPT !.dependencies[task] = @ \cup {Head(names)}],
        outcome |-> "ProjectNotRegistered"]
  ELSE addEach_CheckAfter(addEdge(r, task, Head(names)), task, Tail(names))
RECURSIVE addEach(_, _, _)
addEach(r, task, names) ==
  IF names = <<>> THEN [reg |-> r, outcome |-> "ok"]
  ELSE IF ~has(r, Head(names)) THEN [reg |-> r, outcome |-> "ProjectNotRegistered"]
  ELSE addEach(addEdge(r, task, Head(names)), task, Tail(names))

\* taskDependencies is [defined |-> FALSE] for undefined/null, else the list.
addDependencies_ListFirst(r, taskName, taskDependencies) ==
  IF ~taskDependencies.defined THEN [reg |-> r, outcome |-> "MustBeDefined"]
  ELSE IF ~has(r, taskName) THEN [reg |-> r, outcome |-> "TaskNotRegistered"]
  ELSE addEach(r, taskName, taskDependencies.names)
addDependencies(r, taskName, taskDependencies) ==
  IF ~has(r, taskName) THEN [reg |-> r, outcome |-> "TaskNotRegistered"]
  ELSE IF ~taskDependencies.defined THEN [reg |-> r, outcome |-> "MustBeDefined"]
  ELSE addEach(r, taskName, taskDependencies.names)

\* ---------------------------------------------------------------- getOrderedTasks
\* dependencyChain.indexOf(task.name) >= 0
inChain(dependencyChain, name) == indexOf(dependencyChain, name) >= 0

\* _checkForCyclicDependencies.  dependencyChain and alreadyCheckedProjects
\* are mutated in place by the code, so the call returns them with what it
\* threw: [thrown, message, chain, checked].
RECURSIVE checkForCyclicDependencies(_, _, _, _)
checkForCyclicDependencies(deps, ts, dependencyChain, alreadyCheckedProjects) ==
  IF ts = <<>>
  THEN [thrown |-> FALSE, message |-> <<>>, chain |-> dependencyChain,
        checked |-> alreadyCheckedProjects]
  ELSE
    LET task == Head(ts) IN
    IF inChain(dependencyChain, task)
    THEN [thrown |-> TRUE, message |-> reverse(Append(dependencyChain, task)),
          chain |-> dependencyChain, checked |-> alreadyCheckedProjects]
    ELSE IF task \notin alreadyCheckedProjects
    THEN LET sub == checkForCyclicDependencies(deps, deps[task],
                      Append(dependencyChain, task),
                      alreadyCheckedProjects \cup {task})
         IN IF sub.thrown THEN sub
            ELSE checkForCyclicDependencies(deps, Tail(ts), pop(sub.chain), sub.checked)
    ELSE checkForCyclicDependencies(deps, Tail(ts), dependencyChain,
                                    alreadyCheckedProjects)

\* Math.min(...xs)
MathMin(xs) == CHOOSE m \in Range(xs) : \A x \in Range(xs) : m <= x

\* Math.max(...depsLengths) + 1
longest_NoIncrement(depsLengths) == MathMax(depsLengths)
longest_Min(depsLengths) == MathMin(depsLengths) + 1
longest(depsLengths) == MathMax(depsLengths) + 1

\* _calculateCriticalPaths(task): [cpl, value], the criticalPathLength of
\* every task after the call and the number the call returns.
RECURSIVE calculateCriticalPaths_NoMemo(_, _, _)
calculateCriticalPaths_NoMemo(deps, cpl, task) ==
  IF Len(deps[task]) = 0
  THEN [cpl |-> [cpl EXCEPT ![task] = 0], value |-> 0]
  ELSE LET depsLengths == [i \in 1..Len(deps[task]) |->
                            calculateCriticalPaths_NoMemo(deps, cpl, deps[task][i]).value]
           len == longest(depsLengths)
       IN [cpl |-> [cpl EXCEPT ![task] = len], value |-> len]
RECURSIVE calculateCriticalPaths(_, _, _)
RECURSIVE pushDepsLengths(_, _, _, _)
calculateCriticalPaths(deps, cpl, task) ==
  IF cpl[task] # Undefined THEN [cpl |-> cpl, value |-> cpl[task]]
  ELSE IF Len(deps[task]) = 0
  THEN [cpl |-> [cpl EXCEPT ![task] = 0], value |-> 0]
  ELSE LET each == pushDepsLengths(deps, cpl, deps[task], <<>>)
           len == longest(each.depsLengths)
       IN [cpl |-> [each.cpl EXCEPT ![task] = len], value |-> len]

\* task.dependents.forEach(dep => depsLengths.push(this._calculateCriticalPaths(dep)))
pushDepsLengths(deps, cpl, ds, depsLengths) ==
  IF ds = <<>> THEN [cpl |-> cpl, depsLengths |-> depsLengths]
  ELSE LET one == calculateCriticalPaths(deps, cpl, Head(ds))
       IN pushDepsLengths(deps, one.cpl, Tail(ds), Append(depsLengths, one.value))

\* this._tasks.forEach(task => this._calculateCriticalPaths(task))
RECURSIVE calculateAll(_, _, _)
calculateAll(deps, cpl, ts) ==
  IF ts = <<>> THEN cpl
  ELSE calculateAll(deps, calculateCriticalPaths(deps, cpl, Head(ts)).cpl, Tail(ts))

\* this._tasks.forEach(task => buildQueue.push(task))
buildQueue_Reversed(ts) == reverse(ts)
buildQueue_DropLast(ts) == SubSeq(ts, 1, Len(ts) - 1)
buildQueue(ts) == ts

\* (task) => -task.criticalPathLength!
keySelector_Ascending(cpl, task) == cpl[task]
keySelector(cpl, task) == -cpl[task]

\* Sort.sortBy: a stable sort, ascending by key
RECURSIVE insertStable(_, _, _)
insertStable(sorted, x, key) ==
  IF sorted = <<>> THEN <<x>>
  ELSE IF key[Head(sorted)] <= key[x]
  THEN <<Head(sorted)>> \o insertStable(Tail(sorted), x, key)
  ELSE <<x>> \o sorted

RECURSIVE sortBy(_, _)
sortBy(array, key) ==
  IF array = <<>> THEN <<>>
  ELSE insertStable(sortBy(SubSeq(array, 1, Len(array) - 1), key),
                    array[Len(array)], key)

\* getOrderedTasks with the lengths of the tasks without dependents written
\* before the cycle check.
getOrderedTasks_LeavesFirst(r) ==
  LET leaves == [t \in DOMAIN r.criticalPathLength |->
                   IF r.criticalPathLength[t] = Undefined /\ Len(r.dependents[t]) = 0
                   THEN 0 ELSE r.criticalPathLength[t]]
      r1 == [r EXCEPT !.criticalPathLength = leaves]
      chk == checkForCyclicDependencies(r.dependents, r.tasks, <<>>, {})
  IN IF chk.thrown
     THEN [reg |-> r1, outcome |-> "CyclicDependency", value |-> <<>>,
           chain |-> chk.message]
     ELSE LET cpl == calculateAll(r.dependents, leaves, r.tasks)
              key == [t \in Range(r.tasks) |-> keySelector(cpl, t)]
          IN [reg |-> [r EXCEPT !.criticalPathLength = cpl], outcome |-> "ok",
              value |-> sortBy(buildQueue(r.tasks), key), chain |-> <<>>]

\* getOrderedTasks with the Map left in the sorted order.
getOrderedTasks_Rekeys(r) ==
  LET chk == checkForCyclicDependencies(r.dependents, r.tasks, <<>>, {}) IN
  IF chk.thrown
  THEN [reg |-> r, outcome |-> "CyclicDependency", value |-> <<>>,
        chain |-> chk.message]
  ELSE LET cpl == calculateAll(r.dependents, r.criticalPathLength, r.tasks)
           key == [t \in Range(r.tasks) |-> keySelector(cpl, t)]
           sorted == sortBy(buildQueue(r.tasks), key)
       IN [reg |-> [r EXCEPT !.criticalPathLength = cpl, !.tasks = sorted],
           outcome |-> "ok", value |-> sorted, chain |-> <<>>]

getOrderedTasks(r) ==
  LET chk == checkForCyclicDependencies(r.dependents, r.tasks, <<>>, {}) IN
  IF chk.thrown
  THEN [reg |-> r, outcome |-> "CyclicDependency", value |-> <<>>,
        chain |-> chk.message]
  ELSE LET cpl == calculateAll(r.dependents, r.criticalPathLength, r.tasks)
           queue == buildQueue(r.tasks)
           key == [t \in Range(queue) |-> keySelector(cpl, t)]
       IN [reg |-> [r EXCEPT !.criticalPathLength = cpl], outcome |-> "ok",
           value |-> sortBy(queue, key), chain |-> <<>>]

\* ---------------------------------------------------------------- the calls
\* What the callers pass as taskDependencies.
RECURSIVE SeqsUpTo(_, _)
SeqsUpTo(S, n) ==
  IF n = 0 THEN {<<>>}
  ELSE LET shorter == SeqsUpTo(S, n - 1)
       IN shorter \cup {Append(s, x) : s \in shorter, x \in S}

DepArgs ==
  {[defined |-> FALSE, names |-> <<>>]}
    \cup {[defined |-> TRUE, names |-> s] : s \in SeqsUpTo(Names, MaxDepLen)}

EdgeCount(r) == Cardinality({p \in Range(r.tasks) \X Range(r.tasks) :
                               p[2] \in r.dependencies[p[1]]})

Store(r) ==
  /\ tasks' = r.tasks
  /\ dependencies' = r.dependencies
  /\ dependents' = r.dependents
  /\ status' = r.status
  /\ criticalPathLength' = r.criticalPathLength

\* What a call hands back: the operation, "ok" or the error it threw, the
\* array getOrderedTasks returned and the chain its error message lists.
Returned(op, outcome, value, chain) ==
  [op |-> op, outcome |-> outcome, value |-> value, chain |-> chain]

Init ==
  /\ tasks = <<>>
  /\ dependencies = << >>
  /\ dependents = << >>
  /\ status = << >>
  /\ criticalPathLength = << >>
  /\ result = Returned("new", "ok", <<>>, <<>>)
  /\ pc = "idle"
  /\ projects = <<"p1">>
  /\ finder = << >>
  /\ cursor = 1
  /\ console = <<>>
  /\ processExit = <<>>

AddTask ==
  \E name \in Names :
    LET out == addTask(Registry, name) IN
      /\ Store(out.reg)
      /\ result' = Returned("addTask", out.outcome, <<>>, <<>>)
      /\ UNCHANGED checkVars

AddDependencies ==
  \E taskName \in Names, taskDependencies \in DepArgs :
    LET out == addDependencies(Registry, taskName, taskDependencies) IN
      /\ EdgeCount(out.reg) <= MaxEdges
      /\ Store(out.reg)
      /\ result' = Returned("addDependencies", out.outcome, <<>>, <<>>)
      /\ UNCHANGED checkVars

GetOrderedTasks ==
  LET out == getOrderedTasks(Registry) IN
    /\ Store(out.reg)
    /\ result' = Returned("getOrderedTasks", out.outcome, out.value, out.chain)
    /\ UNCHANGED checkVars

Next == AddTask \/ AddDependencies \/ GetOrderedTasks

Spec == Init /\ [][Next]_vars

\* The sessions that register tasks and declare edges, before any ordering.
NextBuild == AddTask \/ AddDependencies

SpecBuild == Init /\ [][NextBuild]_vars

\* ---------------------------------------------------------------- CheckAction.run
\* 'preferred versions from ' + RushConstants.commonVersionsFilename
PreferredVersionsProject == "preferred versions from common-versions.json"

DependencyPool == <<"d1", "d2", "d3", "d4">>
VersionPool == <<"1.0.0", "2.0.0">>
ConsumerPool == <<"p1", PreferredVersionsProject>>

\* What a VersionMismatchFinder can hold: for some dependencies, one or more
\* versions, each with one or more consuming projects.
ConsumerSets == SUBSET Range(ConsumerPool) \ {{}}

VersionTables ==
  UNION {[V -> ConsumerSets] : V \in SUBSET Range(VersionPool) \ {{}}}

FinderTables ==
  UNION {[D -> VersionTables] :
           D \in SUBSET {DependencyPool[i] : i \in 1..MaxMismatches}}

\* The members of S in the order a Map or Set iterates them.
iterate(S, pool) == SelectSeq(pool, LAMBDA x : x \in S)

\* VersionMismatchFinder
getMismatches(f) == iterate(DOMAIN f, DependencyPool)
getVersionsOfMismatch(f, dependency) == iterate(DOMAIN f[dependency], VersionPool)
getConsumersOfMismatch(f, dependency, version) ==
  iterate(f[dependency][version], ConsumerPool)
numberOfMismatches(f) == Cardinality(DOMAIN f)

\* One console.log call: what the line is and the text or number in it.
Line(kind, text, n) == [kind |-> kind, text |-> text, n |-> n]

\* console.log(`  ${version}`) and the forEach over the version's consumers
printVersion_NoConsumers(f, dependency, version) == <<Line("version", version, 0)>>
printVersion(f, dependency, version) ==
  LET consumers == getConsumersOfMismatch(f, dependency, version) IN
    <<Line("version", version, 0)>>
      \o [i \in 1..Len(consumers) |-> Line("consumer", consumers[i], 0)]

\* getVersionsOfMismatch(dependency)!.forEach(...)
RECURSIVE printVersions(_, _, _)
printVersions(f, dependency, versions) ==
  IF versions = <<>> THEN <<>>
  ELSE printVersion(f, dependency, Head(versions))
         \o printVersions(f, dependency, Tail(versions))

\* The body of getMismatches().forEach: the lines one dependency adds.
printMismatch(f, dependency) ==
  <<Line("dependency", dependency, 0)>>
    \o printVersions(f, dependency, getVersionsOfMismatch(f, dependency))
    \o <<Line("blank", "", 0)>>

\* if (mismatchFinder.numberOfMismatches)
exits_Never(f) == FALSE
exits(f) == numberOfMismatches(f) # 0

\* run, up to the construction of the finder: the project that stands for
\* the preferred versions is pushed, and the finder holds what it found.
RunBegin ==
  /\ pc = "idle"
  /\ \E f \in FinderTables : finder' = f
  /\ projects' = Append(projects, PreferredVersionsProject)
  /\ cursor' = 1
  /\ pc' = "forEach"
  /\ UNCHANGED <<console, processExit, collectionVars>>

\* One iteration of mismatchFinder.getMismatches().forEach.
RunPrint ==
  /\ pc = "forEach"
  /\ cursor <= Len(getMismatches(finder))
  /\ console' = console \o printMismatch(finder, getMismatches(finder)[cursor])
  /\ cursor' = cursor + 1
  /\ UNCHANGED <<pc, projects, finder, processExit, collectionVars>>

\* The summary line, and process.exit(1) or the resolved promise.
RunFinish ==
  /\ pc = "forEach"
  /\ cursor > Len(getMismatches(finder))
  /\ IF exits(finder)
     THEN /\ console' = Append(console, Line("found", "", numberOfMismatches(finder)))
          /\ processExit' = Append(processExit, 1)
          /\ pc' = "exited"
     ELSE /\ console' = Append(console, Line("none", "", 0))
          /\ processExit' = processExit
          /\ pc' = "resolved"
  /\ UNCHANGED <<projects, finder, cursor, collectionVars>>

NextCheck == RunBegin \/ RunPrint \/ RunFinish

SpecCheck == Init /\ [][NextCheck]_vars

\* ================================================================ properties
\* The graph the registry holds, read off the dependents sets.
Registered == Range(tasks)

Dependents(t) == Range(dependents[t])

RECURSIVE ReachedWithin(_, _)
ReachedWithin(S, n) ==
  IF n = 0 THEN S
  ELSE LET R == ReachedWithin(S, n - 1)
       IN R \cup UNION {Dependents(t) : t \in R}

\* The tasks t reaches through one or more dependents edges.
Downstream(t) == ReachedWithin(Dependents(t), Cardinality(Registered))

HasCycle == \E t \in Registered : t \in Downstream(t)

\* The number of edges of the longest chain of dependents starting at t, in
\* an acyclic graph.
RECURSIVE LongestChain(_)
LongestChain(t) ==
  IF Dependents(t) = {} THEN 0
  ELSE LET below == {LongestChain(d) : d \in Dependents(t)}
       IN 1 + CHOOSE m \in below : \A x \in below : x <= m

\* criticalPathLength[t] is 0 without dependents and otherwise one more than
\* the largest criticalPathLength among t's dependents, all of them set.
Recurrence(t) ==
  IF Dependents(t) = {} THEN criticalPathLength[t] = 0
  ELSE /\ \A d \in Dependents(t) : criticalPathLength[d] # Undefined
       /\ \E d \in Dependents(t) :
            /\ criticalPathLength[t] = 1 + criticalPathLength[d]
            /\ \A e \in Dependents(t) : criticalPathLength[e] <= criticalPathLength[d]

Ordered == result.op = "getOrderedTasks" /\ result.outcome = "ok"

\* C1: getOrderedTasks throws the cyclic-dependency error exactly when some
\* registered task reaches itself through one or more dependents edges,
\* whatever the registration order and the order the edges were declared in.
C1_CycleReportedIffCyclic ==
  /\ (getOrderedTasks(Registry).outcome = "CyclicDependency") <=> HasCycle
  /\ result.op = "getOrderedTasks" =>
       ((result.outcome = "CyclicDependency") <=> HasCycle)

\* A cycle through three tasks was reported.
C1_Witness ==
  /\ result.op = "getOrderedTasks"
  /\ result.outcome = "CyclicDependency"
  /\ Cardinality(Registered) = 3
  /\ \A t \in Registered :
       Len(dependents[t]) = 1 /\ t \notin Dependents(t) /\ t \in Downstream(t)

\* C2: on an acyclic graph getOrderedTasks returns, and what it returns holds
\* every registered task exactly once and nothing else.
C2_ReturnsPermutation ==
  (result.op = "getOrderedTasks" /\ ~HasCycle) =>
    /\ result.outcome = "ok"
    /\ Len(result.value) = Len(tasks)
    /\ Range(result.value) = Registered
    /\ \A i, j \in 1..Len(result.value) :
         result.value[i] = result.value[j] => i = j

C2_Witness ==
  /\ Ordered
  /\ Len(result.value) = 3
  /\ \E t \in Registered : Len(dependents[t]) = 2

\* Every task has its criticalPathLength set, to the value of the recurrence
\* and to the number of edges of its longest chain of dependents.
C3_AllExact ==
  \A t \in Registered :
    /\ criticalPathLength[t] # Undefined
    /\ Recurrence(t)
    /\ criticalPathLength[t] = LongestChain(t)

\* C3: a getOrderedTasks call that finds no criticalPathLength set (the first
\* ordering of a session) and passes the cycle check leaves every task with
\* criticalPathLength 0 when it has no dependents and otherwise 1 + the
\* largest criticalPathLength of its dependents, which is the number of edges
\* of the longest chain of dependents starting at the task.
C3_FirstOrderingExact ==
  [][ ( /\ result'.op = "getOrderedTasks"
        /\ result'.outcome = "ok"
        /\ \A t \in Registered : criticalPathLength[t] = Undefined )
      => C3_AllExact' ]_vars

\* An ordering left a task with two chains of different length at 2.
C3_Witness ==
  /\ Ordered
  /\ C3_AllExact
  /\ \E t \in Registered :
       /\ criticalPathLength[t] = 2
       /\ Len(dependents[t]) = 2

\* C4 as claimed: in every reachable state every task whose
\* criticalPathLength is set satisfies the recurrence over its current
\* dependents.
C4_SetImpliesRecurrence ==
  \A t \in Registered : criticalPathLength[t] # Undefined => Recurrence(t)

\* C4 as amended: the recurrence holds after construction and is kept by every
\* call that leaves the dependents set of every registered task as it was.
C4_KeptWhileNoEdgeAdded ==
  [][ ( /\ C4_SetImpliesRecurrence
        /\ \A t \in Registered : dependents'[t] = dependents[t] )
      => C4_SetImpliesRecurrence' ]_vars

\* A task registered after an ordering: its criticalPathLength is unset
\* beside tasks whose lengths are set.
C4_Witness ==
  /\ result.op = "addTask"
  /\ result.outcome = "ok"
  /\ C4_SetImpliesRecurrence
  /\ \E t \in Registered : criticalPathLength[t] = Undefined
  /\ \E t \in Registered : criticalPathLength[t] = 1

\* C5: the array getOrderedTasks returns is non-increasing in
\* criticalPathLength, and every task in it has its criticalPathLength set.
C5_SortedDescending ==
  Ordered =>
    /\ \A i \in 1..Len(result.value) :
         criticalPathLength[result.value[i]] # Undefined
    /\ \A i, j \in 1..Len(result.value) :
         i < j => criticalPathLength[result.value[i]]
                    >= criticalPathLength[result.value[j]]

\* Three lengths, returned in another order than the registration order.
C5_Witness ==
  /\ Ordered
  /\ Len(result.value) = 3
  /\ result.value # tasks
  /\ criticalPathLength[result.value[1]] > criticalPathLength[result.value[2]]
  /\ criticalPathLength[result.value[2]] > criticalPathLength[result.value[3]]

\* C6: tasks of equal criticalPathLength are returned in registration order,
\* and a registry without edges is returned in registration order.
C6_TiesInRegistrationOrder ==
  Ordered =>
    /\ \A i, j \in 1..Len(result.value) :
         ( /\ i < j
           /\ criticalPathLength[result.value[i]]
                = criticalPathLength[result.value[j]] )
         => indexOf(tasks, result.value[i]) < indexOf(tasks, result.value[j])
    /\ (\A t \in Registered : dependents[t] = <<>>) => result.value = tasks

\* A tie behind a task that was registered later but sorts first.
C6_Witness ==
  /\ Ordered
  /\ Len(result.value) = 3
  /\ result.value[1] = tasks[3]
  /\ criticalPathLength[result.value[2]] = criticalPathLength[result.value[3]]

\* C7 as claimed: an addDependencies call that throws the not-registered
\* error for a dependency name leaves every dependencies and dependents set
\* as it was.
C7_FailedCallChangesNoEdge ==
  [][ ( /\ result'.op = "addDependencies"
        /\ result'.outcome = "ProjectNotRegistered" )
      => (dependencies' = dependencies /\ dependents' = dependents) ]_vars

\* C8: dependencies and dependents are mutual inverses in every reachable
\* state.
C8_MutualInverses ==
  \A a, b \in Registered :
    b \in dependencies[a] <=> a \in Dependents(b)

\* A failed addDependencies call on a registry that holds edges.
C8_Witness ==
  /\ result.op = "addDependencies"
  /\ result.outcome = "ProjectNotRegistered"
  /\ EdgeCount(Registry) >= 2

\* C9: addTask with a registered name throws the duplicate-registration error
\* and leaves the registry, every field of every task included, as it was.
C9_DuplicateChangesNothing ==
  \A name \in Registered :
    LET out == addTask(Registry, name) IN
      /\ out.outcome = "AlreadyRegistered"
      /\ out.reg = Registry

\* A duplicate registration was refused in a registry with edges and
\* computed lengths.
C9_Witness ==
  /\ result.op = "addTask"
  /\ result.outcome = "AlreadyRegistered"
  /\ EdgeCount(Registry) >= 1
  /\ \E t \in Registered : criticalPathLength[t] = 1

\* C10: a second addDependencies call with the same arguments leaves the
\* registry exactly as the first one left it (every dependencies and
\* dependents set, and with them all that a following getOrderedTasks reads),
\* and a list that repeats its names has the effect of the list itself.
C10_Idempotent ==
  \A name \in Names, deps \in DepArgs :
    LET once == addDependencies(Registry, name, deps)
        twice == addDependencies(once.reg, name, deps)
        doubled == [deps EXCEPT !.names = deps.names \o deps.names]
    IN /\ twice = once
       /\ addDependencies(Registry, name, doubled) = once
       /\ getOrderedTasks(twice.reg) = getOrderedTasks(once.reg)

\* The last call declared two edges of one task, and declaring them again
\* changes nothing.
C10_Witness ==
  /\ result.op = "addDependencies"
  /\ result.outcome = "ok"
  /\ \E name \in Registered, deps \in DepArgs :
       /\ deps.defined
       /\ Len(deps.names) = 2
       /\ deps.names[1] # deps.names[2]
       /\ addDependencies(Registry, name, deps) = [reg |-> Registry, outcome |-> "ok"]

\* The tasks t reaches through one or more dependents edges in registry r.
RECURSIVE ReachedWithinIn(_, _, _)
ReachedWithinIn(r, S, n) ==
  IF n = 0 THEN S
  ELSE LET R == ReachedWithinIn(r, S, n - 1)
       IN R \cup UNION {Range(r.dependents[t]) : t \in R}

HasCycleIn(r) ==
  \E t \in Range(r.tasks) :
    t \in ReachedWithinIn(r, Range(r.dependents[t]), Len(r.tasks))

\* C11: an addDependencies call whose task and dependency names are all
\* registered succeeds and adds every edge, on both sides, also when the
\* edges close a cycle or make a task its own dependency; the cycle is what
\* the next getOrderedTasks call then throws.
C11_CycleAcceptedThenReported ==
  \A name \in Registered, deps \in DepArgs :
    (deps.defined /\ Range(deps.names) \subseteq Registered) =>
      LET out == addDependencies(Registry, name, deps) IN
        /\ out.outcome = "ok"
        /\ \A d \in Range(deps.names) :
             /\ d \in out.reg.dependencies[name]
             /\ name \in Range(out.reg.dependents[d])
        /\ HasCycleIn(out.reg) =>
             getOrderedTasks(out.reg).outcome = "CyclicDependency"

\* A successful addDependencies call left a cycle through two tasks.
C11_Witness ==
  /\ result.op = "addDependencies"
  /\ result.outcome = "ok"
  /\ \E a, b \in Registered :
       a # b /\ a \in dependencies[b] /\ b \in dependencies[a]

\* C12: addDependencies throws the not-registered error for an unregistered
\* task name and the must-be-defined error for a registered task with an
\* undefined list, and in both cases leaves the registry as it was.
C12_RejectedWithoutChange ==
  \A name \in Names, deps \in DepArgs :
    LET out == addDependencies(Registry, name, deps) IN
      /\ name \notin Registered =>
           (out.outcome = "TaskNotRegistered" /\ out.reg = Registry)
      /\ (name \in Registered /\ ~deps.defined) =>
           (out.outcome = "MustBeDefined" /\ out.reg = Registry)

\* An undefined list was refused in a registry that holds edges.
C12_Witness ==
  /\ result.op = "addDependencies"
  /\ result.outcome = "MustBeDefined"
  /\ EdgeCount(Registry) >= 1

\* C13: a successful addTask appends exactly the new name with empty
\* dependencies and dependents, status Ready and no criticalPathLength, after
\* which hasTask is true for it; it changes no field of an earlier task, and
\* no call ever removes a task.
C13_AddTaskFrame ==
  [][ /\ \A t \in Registered : hasTask(Registry', t)
      /\ (result'.op = "addTask" /\ result'.outcome = "ok") =>
           /\ Len(tasks') = Len(tasks) + 1
           /\ SubSeq(tasks', 1, Len(tasks)) = tasks
           /\ LET name == tasks'[Len(tasks')] IN
                /\ name \notin Registered
                /\ hasTask(Registry', name)
                /\ dependencies'[name] = {}
                /\ dependents'[name] = <<>>
                /\ status'[name] = Ready
                /\ criticalPathLength'[name] = Undefined
           /\ \A t \in Registered :
                /\ dependencies'[t] = dependencies[t]
                /\ dependents'[t] = dependents[t]
                /\ status'[t] = status[t]
                /\ criticalPathLength'[t] = criticalPathLength[t] ]_vars

\* A task was registered beside tasks that hold edges and computed lengths.
C13_Witness ==
  /\ result.op = "addTask"
  /\ result.outcome = "ok"
  /\ Len(tasks) = 3
  /\ EdgeCount(Registry) >= 1
  /\ criticalPathLength[tasks[3]] = Undefined
  /\ criticalPathLength[tasks[1]] # Undefined

\* C14: every task in the dependencies or dependents set of a registered
\* task is itself registered.
C14_ClosedUnderEdges ==
  \A t \in Registered :
    /\ dependencies[t] \subseteq Registered
    /\ Dependents(t) \subseteq Registered

\* Two registered tasks hold every edge they can while a third name is
\* unknown, and a call naming it has just failed.
C14_Witness ==
  /\ result.op = "addDependencies"
  /\ result.outcome = "ProjectNotRegistered"
  /\ Cardinality(Registered) = 2
  /\ EdgeCount(Registry) = 3

CycleThrown == result.op = "getOrderedTasks" /\ result.outcome = "CyclicDependency"

\* C15 as claimed: the chain of a cyclic-dependency error starts and ends
\* with the repeated task, holds only tasks on the cycle through that task,
\* and each task in it depends on the task that follows it.
C15_ChainIsTheCycle ==
  CycleThrown =>
    LET c == result.chain IN
      /\ Len(c) >= 2
      /\ c[1] = c[Len(c)]
      /\ \A i \in 1..Len(c) :
           c[i] \in Downstream(c[1]) /\ c[1] \in Downstream(c[i])
      /\ \A i \in 1..(Len(c) - 1) : c[i + 1] \in dependencies[c[i]]

\* C16: getOrderedTasks ends on every graph, with the array or with the
\* cyclic-dependency error; on a graph with a cycle it throws that error, and
\* when it throws it no criticalPathLength has been written.
C16_CheckBeforeCriticalPaths ==
  LET out == getOrderedTasks(Registry) IN
    /\ out.outcome \in {"ok", "CyclicDependency"}
    /\ HasCycle => out.outcome = "CyclicDependency"
    /\ out.outcome = "CyclicDependency" =>
         out.reg.criticalPathLength = criticalPathLength

\* The cycle was thrown while a task without dependents still has no length
\* beside a task whose length an earlier ordering set.
C16_Witness ==
  /\ CycleThrown
  /\ \E t \in Registered :
       criticalPathLength[t] = Undefined /\ dependents[t] = <<>>
  /\ \E t \in Registered : criticalPathLength[t] # Undefined

\* Every task stands before the tasks that depend on it.
Topological(value) ==
  \A i, j \in 1..Len(value) : value[j] \in Dependents(value[i]) => i < j

\* C17: the array returned by an ordering that finds no criticalPathLength
\* set (the first ordering of a session) is a topological order: every task
\* stands before each task that depends on it.
C17_FirstOrderTopological ==
  [][ ( /\ result'.op = "getOrderedTasks"
        /\ result'.outcome = "ok"
        /\ \A t \in Registered : criticalPathLength[t] = Undefined )
      => Topological(result.value)' ]_vars

\* A chain of three tasks registered last-first comes out first-last.
C17_Witness ==
  /\ Ordered
  /\ C3_AllExact
  /\ Len(tasks) = 3
  /\ result.value = reverse(tasks)
  /\ Topological(result.value)
  /\ criticalPathLength[tasks[3]] = 2

\* C18: a criticalPathLength that is set is never changed or cleared; one
\* that is unset (a new task's included) becomes set only in a getOrderedTasks
\* call that passes the cycle check, and such a call sets all of them.
C18_MemoizedOnce ==
  [][ /\ \A t \in Registered :
           criticalPathLength[t] # Undefined
             => criticalPathLength'[t] = criticalPathLength[t]
      /\ \A t \in Range(tasks') :
           ( /\ (t \notin Registered \/ criticalPathLength[t] = Undefined)
             /\ criticalPathLength'[t] # Undefined )
           => (result'.op = "getOrderedTasks" /\ result'.outcome = "ok")
      /\ (result'.op = "getOrderedTasks" /\ result'.outcome = "ok")
           => \A t \in Range(tasks') : criticalPathLength'[t] # Undefined ]_vars

\* After a later ordering a task still has length 0 although it has
\* dependents by now.
C18_Witness ==
  /\ Ordered
  /\ \E t \in Registered :
       criticalPathLength[t] = 0 /\ dependents[t] # <<>>

\* C19: getOrderedTasks, returning or throwing, leaves the registered names
\* and their order, every dependencies and dependents set and every status as
\* they were, and every status is Ready.
C19_OrderingFrame ==
  LET out == getOrderedTasks(Registry).reg IN
    /\ out.tasks = tasks
    /\ out.dependencies = dependencies
    /\ out.dependents = dependents
    /\ out.status = status
    /\ \A t \in Registered : status[t] = Ready

\* An ordering returned the tasks in another order than they are registered.
C19_Witness ==
  /\ Ordered
  /\ Len(tasks) = 2
  /\ result.value = reverse(tasks)
  /\ EdgeCount(Registry) = 1

\* Dependency d was printed, then version v under it, then project p under
\* that version.
Printed(d, v, p) ==
  \E i, j, k \in 1..Len(console) :
    /\ i < j /\ j < k
    /\ console[i] = Line("dependency", d, 0)
    /\ console[j] = Line("version", v, 0)
    /\ console[k] = Line("consumer", p, 0)
    /\ \A m \in (i + 1)..k : console[m].kind \notin {"dependency", "blank"}
    /\ \A m \in (j + 1)..k : console[m].kind # "version"

AllPrinted ==
  \A d \in DOMAIN finder :
    \A v \in DOMAIN finder[d] :
      \A p \in finder[d][v] : Printed(d, v, p)

\* C20: run calls process.exit, with status 1, exactly when the finder
\* reports one or more mismatches, and by then every mismatched dependency
\* is on the console with each of its versions and each consumer of each
\* version; with no mismatch it prints the success line and resolves without
\* exiting.
C20_ExitAfterFullReport ==
  /\ processExit # <<>> =>
       /\ processExit = <<1>>
       /\ pc = "exited"
       /\ numberOfMismatches(finder) >= 1
       /\ AllPrinted
  /\ pc = "exited" => processExit = <<1>>
  /\ pc = "resolved" =>
       /\ numberOfMismatches(finder) = 0
       /\ processExit = <<>>
       /\ console = <<Line("none", "", 0)>>

\* The process exited after two dependencies, one with two versions and one
\* with a version that two projects consume.
C20_Witness ==
  /\ pc = "exited"
  /\ Cardinality(DOMAIN finder) = 2
  /\ \E d \in DOMAIN finder : Cardinality(DOMAIN finder[d]) = 2
  /\ \E d \in DOMAIN finder :
       \E v \in DOMAIN finder[d] : Cardinality(finder[d][v]) = 2

====
